---- MODULE Spec2Model ----
(***************************************************************************)
(* DrishtiGuide main controller (src/src/esp32-main-controller).           *)
(*                                                                         *)
(* The fall detector is the body of loop() in main_controller.ino: one     *)
(* iteration reads the accelerometer and millis() and updates the global   *)
(* timers and flags.  Magnitudes are in hundredths of g (1.0 g = 100),     *)
(* times in milliseconds.                                                  *)
(*                                                                         *)
(* fall_detection.h only declares class FallDetector (FallEvent, reset,    *)
(* isInCooldown, getLastFall); no implementation is in the repository.     *)
(* The parts of it that are modelled are written from its specification    *)
(* and are marked "FallDetector, from the specification".                  *)
(*                                                                         *)
(* The obstacle-detection nodes (src/src/esp8266-nodes) are modelled too:  *)
(* the transmitter's loop() of transmitter.ino and the receiver's ESP-NOW  *)
(* callback OnDataRecv and empty loop() of receiver.ino.  Distances are in *)
(* centimetres, echo durations in microseconds.                            *)
(*                                                                         *)
(* The example transmitters are modelled last: readSensors, transmitData   *)
(* and onDataSent of examples/basic_setup.ino.  Its config.h is not in the *)
(* repository; the range and the retry count are the documented values of  *)
(* the transmitter's configuration.                                        *)
(***************************************************************************)
EXTENDS Integers, Sequences, FiniteSets, TLC

\* ------------------------------------------------------------ constants
\* main_controller.ino:25-28
FALL_LOW_G == 30
FALL_HIGH_G == 280
WINDOW_MS == 300
COOLDOWN_MS == 1000
\* main_controller.ino:122 (0.05 g)
MOVEMENT_DELTA == 5
\* main_controller.ino:162 and :163
INACTIVITY_TIMEOUT_MS == 10000
INACTIVITY_REALERT_MS == 10000
\* main_controller.ino:62
BUZZER_TOGGLE_MS == 300
\* main_controller.ino:148 and :165
FALL_BEEPS == 2
INACTIVITY_BEEPS == 5
\* config.h of the main controller (unnamed/part_008:39), the documented
\* emergency pattern
EMERGENCY_BEEP_COUNT == 5
\* main_controller.ino:121, the rest magnitude lastAcc starts from
REST_ACC == 100
\* sensors.h:15, the magnitude is a float: the value that stands for NaN
\* (a magnitude is a square root, never negative)
NaN == -1
\* fall_detection.h:21, FallEvent.duration is a uint16_t
DURATION_MOD == 65536

\* receiver.ino:34-52, the band limits of the distance-to-motor mapping
LEVEL_1_MAX == 100
LEVEL_2_MAX == 80
LEVEL_3_MAX == 60
LEVEL_4_MAX == 40
LEVEL_5_MAX == 20
\* receiver.ino:5-9, MOTOR1..MOTOR5
NUM_MOTORS == 5
\* receiver/config.h:42
WATCHDOG_TIMEOUT == 5000
\* transmitter README (receiver.ino:120-121), the detection range in cm
MAX_DISTANCE == 400
MIN_DISTANCE == 2

\* basic_setup.ino:116, the validity range; the values are those of the
\* transmitter's documented configuration (receiver.ino:270-271)
MAX_DISTANCE_CM == 400
MIN_DISTANCE_CM == 2
\* basic_setup.ino:120, the default distance
DEFAULT_DISTANCE_CM == 100
\* basic_setup.ino:146, the retry count (documented: receiver.ino:276)
MAX_RETRIES == 3

\* ------------------------------------------------------------ bounds
\* Width of the millisecond counter.  unsigned long is 32 bits on the ESP32;
\* the model's counter is narrower, and the specifications below stop the
\* clock at MaxTime / MaxTimeLong, before it can wrap.
ClockMod == 1048576
\* Horizon and iteration budget of the fine-grained specification
\* (sampling every 50 ms).
MaxTime == 2450
MaxIters == 60
\* Horizon and iteration budget of the coarse-grained specification
\* (inactivity, 10 s timers).
MaxTimeLong == 65000
MaxItersLong == 6

\* Largest distance a packet carries to the receiver, packets the receiver
\* handles in a run, and the longest silence that is followed.
MaxRxDistance == 110
MaxPackets == 2
MaxIdle == 7500
\* Longest echo, in steps of 59 microseconds (about one centimetre each).
MaxEchoSteps == 420

\* Horizon and iteration budget of the specification that follows the
\* buzzer patterns to their end (sampling every 300 ms, or after 10.3 s).
MaxTimeBuzz == 15000
MaxItersBuzz == 18

\* Iterations of loop() that are followed across a wraparound of millis().
MaxItersWrap == 6

\* Calls of transmitData that are followed, and send callbacks that can be
\* outstanding at a time.
MaxTransmits == 3
MaxPending == 2

\* Iterations of the advanced transmitter's loop() that are followed, and
\* send callbacks of it that can be outstanding at a time.
MaxAdvLoops == 4
MaxAdvPending == 1
\* Cycles of the distance path that are followed: the buffer of the larger
\* FILTER_SIZE fills up and turns over once.
MaxFiltCycles == 6

\* Loop periods and magnitudes the environment can produce.
DtSet == {50}
AccSet == {20, 25, 100, 300}
DtLong == {250, 10000, 10250}
AccLong == {20, 100, 300, 305}
DtBuzz == {300, 10300}
AccBuzz == {20, 300}
\* Around a wraparound of millis(): the sampling of a fall, a pause that
\* outlasts the cooldown, and a stretch that brings the counter back to
\* where it was 1500 ms before; in between, free fall or impact.
DtWrap == {250, 1500, ClockMod - 1500}
AccWrap == {20, 300}
\* The magnitudes of a motion source that can also deliver NaN.
AccNaN == {20, 100, 300, NaN}
\* Distances a packet can carry (struct_message.distance is an int), and
\* how long the receiver's loop() idles between two looks at the clock.
DistSet == (-2)..MaxRxDistance
IdleSet == {2500}
\* Echo durations pulseIn can return: 0 on a timeout, else the pulse length.
DurSet == {0} \cup {59 * k : k \in 1..MaxEchoSteps}
\* Echo durations of the link specification: a timeout, 10 to 30 cm in
\* steps of 10 cm, 150 cm, and an echo longer than the range.
DurLink == {0, 590, 1180, 1770, 8850, 38000}
\* Distances in packets of other senders (the receive callback takes
\* packets from any peer).
DistLink == {-2, 20, 21}
\* The modes of the advanced transmitter are MODE_NORMAL, MODE_POWER_SAVE
\* and MODE_SAFE.  The numeric codes of the macros
\* are in its config.h, which the sources do not hold; the sketch compares
\* and assigns them by name, and they are taken to be distinct.  MODE_ZERO
\* stands for the code 0 in a configuration where no mode has it.
\* Configurations of the advanced transmitter: LOW_BATTERY_THRESHOLD and
\* RECOVERY_BATTERY_THRESHOLD in percent (line 336, 342), MAX_ERROR_COUNT
\* (line 369), and the mode whose code is 0.
AdvConfigs ==
    [low : {3, 20}, recovery : {30, 80}, maxErrors : {2},
     zeroMode : {"MODE_NORMAL", "MODE_ZERO"}]
DefaultAdvConfig ==
    [low |-> 20, recovery |-> 30, maxErrors |-> 2, zeroMode |-> "MODE_NORMAL"]
\* Battery levels readBattery can store: constrain (line 262) keeps them
\* in 0..100.
BatSet == {0, 10, 20, 25, 30, 60, 100}
\* Configurations of the distance path of the advanced transmitter:
\* FILTER_SIZE (line 279) and INVALID_READING (line 254), both of its
\* config.h.
FilterConfigs == [filterSize : {3, 5}, invalidReading : {-1, 0}]
DefaultFilterConfig == [filterSize |-> 5, invalidReading |-> -1]
\* Echo durations of the distance path: a timeout, 10 cm and 20 cm.
DurFilt == {0, 590, 1180}
\* The outcomes of the four tests of performSelfTest, in its order.
TestSet == [1..4 -> BOOLEAN]

\* ------------------------------------------------------------ helpers
Abs(x) == IF x < 0 THEN -x ELSE x

\* comparisons of two floats: false when either is NaN
FLess(a, b) == a # NaN /\ b # NaN /\ a < b
FGreater(a, b) == a # NaN /\ b # NaN /\ a > b
\* fabs(a - b) > th
FApart(a, b, th) == a # NaN /\ b # NaN /\ Abs(a - b) > th

\* unsigned subtraction of two millisecond counters
USub(a, b) == (a - b) % ClockMod

\* millis() one loop period later
ClockAfter(t, dt) == (t + dt) % ClockMod

\* Variant of FormatTime: millis() is not divided by 1000 (line 150).
FormatTime_Millis(ms) ==
    LET t == ms
    IN  <<(t \div 3600) % 24, (t \div 60) % 60, t % 60>>

\* sprintf("%02lu:%02lu:%02lu", (t/3600)%24, (t/60)%60, t%60), t = millis()/1000,
\* as the three numbers printed; NA is the initial "N/A"
FormatTime(ms) ==
    LET t == ms \div 1000
    IN  <<(t \div 3600) % 24, (t \div 60) % 60, t % 60>>
NA == <<>>

\* ------------------------------------------------------------ state
VARIABLES
    now,                 \* millis() as read by the latest loop()
    lastLowTime, lastFallTime, lastMovementTime, lastBuzzToggle,
    inLowWindow, fallDetected, inactivityTriggered,
    buzzerActive, buzzerSteps, buzzerTimer, buzzerPin,
    lastAcc,             \* static float lastAcc of loop()
    lastFallTimeStr,
    \* FallDetector, from the specification
    lastFall,            \* the last-fall slot (FallEvent)
    lowGMag,             \* magnitude recorded at low-g entry
    \* observation of the latest iteration
    iters,               \* iterations of loop() so far
    sampleAcc,           \* magnitude read by the latest loop()
    prevAcc,             \* lastAcc as the latest loop() found it
    detected,            \* the latest loop() ran the fall-event block
    buzzCalls,           \* startBuzzer arguments of the latest loop()
    scenA,               \* leading samples that matched Scenario A, -1 once off it
    runDetections,       \* detections in the current run of samples > FALL_HIGH_G
    openTime, openAcc,   \* time and magnitude of the sample that opened the window
    stillSinceFall,      \* a fall happened and no delta > MOVEMENT_DELTA since
    restSinceFall,       \* a fall happened and every sample since was REST_ACC
    resets,              \* reset() calls since the latest loop(), at most 2
    alertsSinceFall,     \* inactivity alerts since the latest fall
    lastAlertTime,       \* time of the latest inactivity alert
    lastDeltaTime,       \* time of the latest sample with a delta > MOVEMENT_DELTA
    buzzRequested,       \* argument of the latest startBuzzer call, 0 if none
    buzzToggles,         \* toggles by handleBuzzer since that call
    buzzHigh,            \* intervals between toggles, since that call, with the pin HIGH
    buzzEventTime,       \* time of the latest startBuzzer call or toggle
    buzzInterrupted,     \* the latest startBuzzer call found a pattern running
    sinkState,           \* the globals as startBuzzer found them when the
                         \* latest loop() called it for a fall
    \* receiver node
    incomingDistance,    \* incomingData.distance
    motors,              \* level of the pins MOTOR1..MOTOR5
    \* observation of the receiver
    rxPackets,           \* packets handled so far
    rxIdle,              \* milliseconds since the latest packet (or start)
    prevDistance,        \* distance of the packet before the latest
    prevMotors,          \* motors as the packet before the latest left them
    \* transmitter node
    txDistance,          \* myData.distance
    \* observation of the transmitter
    txDuration,          \* echo duration of the latest loop()
    txSent,              \* loop() has passed a packet to esp_now_send
    \* the ESP-NOW link from the transmitter to the receiver
    air,                 \* the packet sent and not yet delivered or lost, with
                         \* the echo duration it was computed from
    rxEcho,              \* echo duration behind the latest packet handled,
                         \* -1 when the packet's sender is not modelled
    \* basic transmitter, readSensors
    sensorDistance,      \* sensorData.distance
    \* observation of readSensors
    bsRead,              \* readSensors has run
    bsReading,           \* distance computed by the latest readSensors
    bsLastValid,         \* latest reading that was in range, 0 if none
    \* basic transmitter, transmitData and onDataSent
    tdPc,                \* where transmitData is: "idle" (not in it), "test"
                         \* (line 146), "send" (147), "delay" (156), "after" (161)
    sendSuccess, retryCount,
    pendingCb,           \* send callbacks that have not run yet
    \* observation of transmitData
    tdCalls,             \* calls of transmitData that have returned
    tdSends,             \* esp_now_send calls of the latest transmitData
    tdOk,                \* one of them returned ESP_OK
    tdFailedMsg,         \* it printed "Failed to send data after maximum retries"
    tdDone,              \* the latest transmitData has returned
    \* advanced transmitter (unnamed/part_005)
    advCfg,              \* the values its config.h gives the macros the
                         \* sketch uses; the header is not in the sources
    operational, currentMode, errorCount, transmissionCount,  \* systemState
    batteryLevel,        \* sensorData.batteryLevel
    cbRegistered,        \* onAdvancedDataSent is registered (line 117)
    advPending,          \* send callbacks that have not run yet
    \* observation of the advanced transmitter
    advBooted,           \* setup() has run since power-on or restart
    advLoops,            \* iterations of loop() so far
    powerCalls,          \* the calls of enterLowPowerMode ("enter") and
                         \* exitLowPowerMode ("exit") since power-on or restart
    \* advanced transmitter, the distance path of loop()
    filtCfg,             \* FILTER_SIZE and INVALID_READING of its config.h
    distanceReadings, readingIndex,   \* statics of processSensorData
    advDistance,         \* sensorData.distance as loop() transmits it
    \* observation of the distance path
    rawReadings,         \* what readDistance stored, cycle by cycle
    filtCycles           \* cycles so far

progVars == <<now, lastLowTime, lastFallTime, lastMovementTime, lastBuzzToggle,
              inLowWindow, fallDetected, inactivityTriggered,
              buzzerActive, buzzerSteps, buzzerTimer, buzzerPin,
              lastAcc, lastFallTimeStr>>
detVars == <<lastFall, lowGMag>>
obsVars == <<iters, sampleAcc, prevAcc, detected, buzzCalls, scenA,
             runDetections, openTime, openAcc, stillSinceFall, restSinceFall,
             resets, alertsSinceFall, lastAlertTime, lastDeltaTime,
             buzzRequested, buzzToggles, buzzHigh, buzzEventTime,
             buzzInterrupted, sinkState>>
rxVars == <<incomingDistance, motors, rxPackets, rxIdle, prevDistance, prevMotors>>
txVars == <<txDistance, txDuration, txSent>>
linkVars == <<air, rxEcho>>
readVars == <<sensorDistance, bsRead, bsReading, bsLastValid>>
sendVars == <<tdPc, sendSuccess, retryCount, pendingCb,
              tdCalls, tdSends, tdOk, tdFailedMsg, tdDone>>
advVars == <<advCfg, operational, currentMode, errorCount, transmissionCount,
             batteryLevel, cbRegistered, advPending, advBooted, advLoops,
             powerCalls>>
filtVars == <<filtCfg, distanceReadings, readingIndex, advDistance,
              rawReadings, filtCycles>>
nodeVars == <<rxVars, txVars, linkVars, readVars>>
vars == <<progVars, detVars, obsVars, rxVars, txVars, linkVars, readVars, sendVars,
          advVars, filtVars>>

\* FallEvent of fall_detection.h; the zero-valued record is the sentinel
NoFall == [timestamp |-> 0, maxAcceleration |-> 0, minAcceleration |-> 0,
           duration |-> 0, isEmergency |-> FALSE]

\* sinkState of an iteration that detected no fall
NoSink == [called |-> FALSE, lastFallTime |-> 0, lastMovementTime |-> 0,
           inactivityTriggered |-> FALSE, lastBuzzToggle |-> 0,
           fallDetected |-> FALSE, inLowWindow |-> FALSE]

\* Scenario A of the specification: (time, magnitude)
ScenarioA == << <<0, 100>>, <<50, 20>>, <<100, 25>>, <<150, 300>> >>

\* ------------------------------------------------------------ loop() pieces
\* Variant of Moved: the difference is compared without fabs.
Moved_Signed(acc, last) == acc # NaN /\ last # NaN /\ acc - last > MOVEMENT_DELTA

\* line 122: fabs(totalAcc - lastAcc) > 0.05
Moved(acc, last) == FApart(acc, last, MOVEMENT_DELTA)

\* Variants of CooldownOver: the gate compares with the detection window,
\* or with twice the cooldown.
CooldownOver_Window(n, lft) == USub(n, lft) > WINDOW_MS
CooldownOver_Doubled(n, lft) == USub(n, lft) > 2 * COOLDOWN_MS

\* line 129: now - lastFallTime > COOLDOWN_MS
CooldownOver(n, lft) == USub(n, lft) > COOLDOWN_MS

\* line 139: now - lastLowTime > WINDOW_MS
WindowExpired(n, llt) == USub(n, llt) > WINDOW_MS

\* Variant of FallDetection: the high-g branch does not close the window
\* (line 137 missing).
FallDetection_NoClose(n, acc, lft, ilw, llt, fd) ==
    IF CooldownOver(n, lft)
    THEN IF ~ilw /\ FLess(acc, FALL_LOW_G)
         THEN [inLowWindow |-> TRUE, lastLowTime |-> n, fallDetected |-> fd]
         ELSE IF ilw
              THEN LET hit == FGreater(acc, FALL_HIGH_G)
                   IN  [inLowWindow |-> IF WindowExpired(n, llt) THEN FALSE ELSE ilw,
                        lastLowTime |-> llt,
                        fallDetected |-> IF hit THEN TRUE ELSE fd]
              ELSE [inLowWindow |-> ilw, lastLowTime |-> llt, fallDetected |-> fd]
    ELSE [inLowWindow |-> ilw, lastLowTime |-> llt, fallDetected |-> fd]

\* Variant of FallDetection: every low-g sample restarts the window (the
\* !inLowWindow test of line 130 missing).
FallDetection_Reopen(n, acc, lft, ilw, llt, fd) ==
    IF CooldownOver(n, lft)
    THEN IF FLess(acc, FALL_LOW_G)
         THEN [inLowWindow |-> TRUE, lastLowTime |-> n, fallDetected |-> fd]
         ELSE IF ilw
              THEN LET hit == FGreater(acc, FALL_HIGH_G)
                       ilw1 == IF hit THEN FALSE ELSE ilw
                   IN  [inLowWindow |-> IF WindowExpired(n, llt) THEN FALSE ELSE ilw1,
                        lastLowTime |-> llt,
                        fallDetected |-> IF hit THEN TRUE ELSE fd]
              ELSE [inLowWindow |-> ilw, lastLowTime |-> llt, fallDetected |-> fd]
    ELSE [inLowWindow |-> ilw, lastLowTime |-> llt, fallDetected |-> fd]

\* Variant of FallDetection: a plain threshold detector, every high-g
\* sample is a fall (no low-g window, no cooldown).
FallDetection_Threshold(n, acc, lft, ilw, llt, fd) ==
    [inLowWindow |-> ilw, lastLowTime |-> llt,
     fallDetected |-> (FGreater(acc, FALL_HIGH_G) \/ fd)]

\* Variant of FallDetection: level-triggered, a high-g sample outside the
\* cooldown is a fall whether or not a low-g window is open.
FallDetection_Level(n, acc, lft, ilw, llt, fd) ==
    IF CooldownOver(n, lft)
    THEN IF ~ilw /\ FLess(acc, FALL_LOW_G)
         THEN [inLowWindow |-> TRUE, lastLowTime |-> n, fallDetected |-> fd]
         ELSE LET hit == FGreater(acc, FALL_HIGH_G)
                  ilw1 == IF hit THEN FALSE ELSE ilw
              IN  [inLowWindow |-> IF WindowExpired(n, llt) THEN FALSE ELSE ilw1,
                   lastLowTime |-> llt,
                   fallDetected |-> IF hit THEN TRUE ELSE fd]
    ELSE [inLowWindow |-> ilw, lastLowTime |-> llt, fallDetected |-> fd]

\* Variant of FallDetection: the cooldown gate of line 129 is missing.
FallDetection_NoGate(n, acc, lft, ilw, llt, fd) ==
    IF ~ilw /\ FLess(acc, FALL_LOW_G)
    THEN [inLowWindow |-> TRUE, lastLowTime |-> n, fallDetected |-> fd]
    ELSE IF ilw
         THEN LET hit == FGreater(acc, FALL_HIGH_G)
                  ilw1 == IF hit THEN FALSE ELSE ilw
              IN  [inLowWindow |-> IF WindowExpired(n, llt) THEN FALSE ELSE ilw1,
                   lastLowTime |-> llt,
                   fallDetected |-> IF hit THEN TRUE ELSE fd]
         ELSE [inLowWindow |-> ilw, lastLowTime |-> llt, fallDetected |-> fd]

\* lines 129-141: the fall state machine; the result is the new
\* inLowWindow, lastLowTime and fallDetected
FallDetection(n, acc, lft, ilw, llt, fd) ==
    IF CooldownOver(n, lft)
    THEN IF ~ilw /\ FLess(acc, FALL_LOW_G)
         THEN [inLowWindow |-> TRUE, lastLowTime |-> n, fallDetected |-> fd]
         ELSE IF ilw
              THEN LET hit == FGreater(acc, FALL_HIGH_G)
                       ilw1 == IF hit THEN FALSE ELSE ilw
                   IN  [inLowWindow |-> IF WindowExpired(n, llt) THEN FALSE ELSE ilw1,
                        lastLowTime |-> llt,
                        fallDetected |-> IF hit THEN TRUE ELSE fd]
              ELSE [inLowWindow |-> ilw, lastLowTime |-> llt, fallDetected |-> fd]
    ELSE [inLowWindow |-> ilw, lastLowTime |-> llt, fallDetected |-> fd]

\* Variant of ClearDetection: the flag is left as it is (line 156 missing).
ClearDetection_Keep(fd) == fd

\* line 156: fallDetected = false at the end of the fall-event block
ClearDetection(fd) == FALSE

\* lines 145-146: the times the fall-event block records
FallEventTimes(n) == [lastFallTime |-> n, lastMovementTime |-> n]

\* Variant of InactivityDue: the re-alert interval is doubled.
InactivityDue_Slow(trig, n, lmt, lbt) ==
    /\ trig
    /\ USub(n, lmt) > INACTIVITY_TIMEOUT_MS
    /\ USub(n, lbt) > 2 * INACTIVITY_REALERT_MS

\* Variant of InactivityDue: the re-alert interval is not tested (line 163
\* missing).
InactivityDue_NoInterval(trig, n, lmt, lbt) ==
    /\ trig
    /\ USub(n, lmt) > INACTIVITY_TIMEOUT_MS

\* lines 162-163: the inactivity alert is due
InactivityDue(trig, n, lmt, lbt) ==
    /\ trig
    /\ USub(n, lmt) > INACTIVITY_TIMEOUT_MS
    /\ USub(n, lbt) > INACTIVITY_REALERT_MS

\* lines 52-57: startBuzzer(beeps) at millis() = n
StartBuzzer(beeps, n) ==
    [active |-> TRUE, steps |-> beeps * 2, timer |-> n, pin |-> TRUE]

\* Variant of HandleBuzzer: the pattern ends one toggle late (< 0 for <= 0
\* at line 67).
HandleBuzzer_OffByOne(b, n) ==
    IF ~b.active THEN b
    ELSE IF USub(n, b.timer) >= BUZZER_TOGGLE_MS
         THEN LET steps1 == b.steps - 1
              IN  IF steps1 < 0
                  THEN [active |-> FALSE, steps |-> steps1, timer |-> n, pin |-> FALSE]
                  ELSE [active |-> TRUE, steps |-> steps1, timer |-> n, pin |-> ~b.pin]
         ELSE b

\* Variant of HandleBuzzer: the pin is not forced LOW at the end of the
\* pattern (line 69 missing).
HandleBuzzer_NoPinLow(b, n) ==
    IF ~b.active THEN b
    ELSE IF USub(n, b.timer) >= BUZZER_TOGGLE_MS
         THEN LET steps1 == b.steps - 1
              IN  IF steps1 <= 0
                  THEN [active |-> FALSE, steps |-> steps1, timer |-> n, pin |-> ~b.pin]
                  ELSE [active |-> TRUE, steps |-> steps1, timer |-> n, pin |-> ~b.pin]
         ELSE b

\* lines 59-72: handleBuzzer() at millis() = n
HandleBuzzer(b, n) ==
    IF ~b.active THEN b
    ELSE IF USub(n, b.timer) >= BUZZER_TOGGLE_MS
         THEN LET steps1 == b.steps - 1
              IN  IF steps1 <= 0
                  THEN [active |-> FALSE, steps |-> steps1, timer |-> n, pin |-> FALSE]
                  ELSE [active |-> TRUE, steps |-> steps1, timer |-> n, pin |-> ~b.pin]
         ELSE b

\* FallDetector, from the specification (algorithm step 3): the magnitude
\* recorded when the low-g window opens
RecordLowG(opened, acc, old) == IF opened THEN acc ELSE old

\* FallDetector, from the specification (algorithm step 4): the FallEvent
\* built on a detection; duration is a uint16_t
BuildFallEvent(n, acc, llt, lowMag) ==
    [timestamp |-> n, maxAcceleration |-> acc, minAcceleration |-> lowMag,
     duration |-> USub(n, llt) % DURATION_MOD, isEmergency |-> TRUE]

\* ------------------------------------------------------------ receiver pieces
\* the pins after pinMode(OUTPUT) (receiver.ino:64-68): all LOW
AllLow == [i \in 1..NUM_MOTORS |-> FALSE]

\* digitalWrite(MOTORi, HIGH) for i = 1..k
DriveHigh(m, k) == [i \in 1..NUM_MOTORS |-> IF i <= k THEN TRUE ELSE m[i]]

\* Variant of MotorsAfter: the motors are not reset first (lines 27-31
\* missing).
MotorsAfter_NoReset(d, old) ==
    LET low == old
    IN  IF d <= LEVEL_1_MAX /\ d > LEVEL_2_MAX THEN DriveHigh(low, 1)
        ELSE IF d <= LEVEL_2_MAX /\ d > LEVEL_3_MAX THEN DriveHigh(low, 2)
        ELSE IF d <= LEVEL_3_MAX /\ d > LEVEL_4_MAX THEN DriveHigh(low, 3)
        ELSE IF d <= LEVEL_4_MAX /\ d > LEVEL_5_MAX THEN DriveHigh(low, 4)
        ELSE IF d <= LEVEL_5_MAX THEN DriveHigh(low, 5)
        ELSE low

\* Variant of MotorsAfter: distances of 0 and below drive no motor.
MotorsAfter_PositiveOnly(d, old) ==
    LET low == [i \in 1..NUM_MOTORS |-> FALSE]
    IN  IF d <= LEVEL_1_MAX /\ d > LEVEL_2_MAX THEN DriveHigh(low, 1)
        ELSE IF d <= LEVEL_2_MAX /\ d > LEVEL_3_MAX THEN DriveHigh(low, 2)
        ELSE IF d <= LEVEL_3_MAX /\ d > LEVEL_4_MAX THEN DriveHigh(low, 3)
        ELSE IF d <= LEVEL_4_MAX /\ d > LEVEL_5_MAX THEN DriveHigh(low, 4)
        ELSE IF d <= LEVEL_5_MAX /\ d > 0 THEN DriveHigh(low, 5)
        ELSE low

\* receiver.ino:26-58: all motors LOW, then the band of d drives its
\* motors HIGH; old is the level of the pins before the call
MotorsAfter(d, old) ==
    LET low == [i \in 1..NUM_MOTORS |-> FALSE]
    IN  IF d <= LEVEL_1_MAX /\ d > LEVEL_2_MAX THEN DriveHigh(low, 1)
        ELSE IF d <= LEVEL_2_MAX /\ d > LEVEL_3_MAX THEN DriveHigh(low, 2)
        ELSE IF d <= LEVEL_3_MAX /\ d > LEVEL_4_MAX THEN DriveHigh(low, 3)
        ELSE IF d <= LEVEL_4_MAX /\ d > LEVEL_5_MAX THEN DriveHigh(low, 4)
        ELSE IF d <= LEVEL_5_MAX THEN DriveHigh(low, 5)
        ELSE low

\* ------------------------------------------------------------ transmitter pieces
\* transmitter.ino:68: int distance = duration * 0.034 / 2, the double
\* truncated to int
EchoToCm(duration) == (duration * 17) \div 1000

\* ------------------------------------------------------------ basic transmitter pieces
\* basic_setup.ino:116: the reading is in range
ValidReading(distance) ==
    distance >= MIN_DISTANCE_CM /\ distance <= MAX_DISTANCE_CM

\* Variant of StoreReading: an invalid reading never sets the default
\* (line 120 missing).
StoreReading_NoDefault(distance, stored) ==
    IF ValidReading(distance) THEN distance ELSE stored

\* basic_setup.ino:116-121: sensorData.distance after a reading, stored
\* being its value before
StoreReading(distance, stored) ==
    IF ValidReading(distance) THEN distance
    ELSE IF stored = 0 THEN DEFAULT_DISTANCE_CM ELSE stored

\* basic_setup.ino:146: the condition of the retry loop
RetryWanted(success, retries) == ~success /\ retries < MAX_RETRIES

\* basic_setup.ino:161: the condition of the failure indication
GaveUp(success, retries) == ~success /\ retries >= MAX_RETRIES

\* ------------------------------------------------------------ Init
\* The state of every sketch but the advanced transmitter at power-on.
InitMain ==
    /\ now = 0
    /\ lastLowTime = 0 /\ lastFallTime = 0
    /\ lastMovementTime = 0 /\ lastBuzzToggle = 0
    /\ inLowWindow = FALSE /\ fallDetected = FALSE /\ inactivityTriggered = FALSE
    /\ buzzerActive = FALSE /\ buzzerSteps = 0 /\ buzzerTimer = 0
    /\ buzzerPin = FALSE
    /\ lastAcc = REST_ACC
    /\ lastFallTimeStr = NA
    /\ lastFall = NoFall /\ lowGMag = 0
    /\ iters = 0 /\ sampleAcc = REST_ACC /\ prevAcc = REST_ACC
    /\ detected = FALSE /\ buzzCalls = <<>>
    /\ scenA = 0
    /\ runDetections = 0 /\ openTime = 0 /\ openAcc = 0
    /\ stillSinceFall = FALSE /\ restSinceFall = FALSE /\ resets = 0
    /\ alertsSinceFall = 0 /\ lastAlertTime = 0 /\ sinkState = NoSink
    /\ lastDeltaTime = 0
    /\ buzzRequested = 0 /\ buzzToggles = 0 /\ buzzHigh = 0
    /\ buzzEventTime = 0 /\ buzzInterrupted = FALSE
    /\ incomingDistance = 0 /\ motors = AllLow
    /\ rxPackets = 0 /\ rxIdle = 0
    /\ prevDistance = 0 /\ prevMotors = AllLow
    /\ txDistance = 0 /\ txDuration = 0 /\ txSent = FALSE
    /\ air = <<>> /\ rxEcho = -1
    /\ sensorDistance = 0 /\ bsRead = FALSE /\ bsReading = 0 /\ bsLastValid = 0
    /\ tdPc = "idle" /\ sendSuccess = FALSE /\ retryCount = 0 /\ pendingCb = 0
    /\ tdCalls = 0 /\ tdSends = 0 /\ tdOk = FALSE /\ tdFailedMsg = FALSE
    /\ tdDone = FALSE

\* The advanced transmitter at power-on, built with the configuration cfg:
\* systemState and sensorData are globals without initialiser (part_005:28-29),
\* so every field is zero.
AdvPowerOn(cfg) ==
    /\ advCfg = cfg
    /\ operational = FALSE /\ currentMode = cfg.zeroMode
    /\ errorCount = 0 /\ transmissionCount = 0
    /\ batteryLevel = 0
    /\ cbRegistered = FALSE /\ advPending = 0
    /\ advBooted = FALSE /\ advLoops = 0
    /\ powerCalls = <<>>

\* The distance path of the advanced transmitter at power-on, built with
\* the configuration cfg: the static buffer of processSensorData
\* (part_005:279-280) and sensorData are zero.
FilterPowerOn(cfg) ==
    /\ filtCfg = cfg
    /\ distanceReadings = [i \in 1..cfg.filterSize |-> 0]
    /\ readingIndex = 0
    /\ advDistance = 0
    /\ rawReadings = <<>> /\ filtCycles = 0

Init ==
    InitMain /\ AdvPowerOn(DefaultAdvConfig) /\ FilterPowerOn(DefaultFilterConfig)

\* Power-on of the advanced transmitter under each configuration considered.
InitAdv ==
    /\ InitMain /\ FilterPowerOn(DefaultFilterConfig)
    /\ \E cfg \in AdvConfigs : AdvPowerOn(cfg)

\* Power-on of the distance path under each configuration considered.
InitFilter ==
    /\ InitMain /\ AdvPowerOn(DefaultAdvConfig)
    /\ \E cfg \in FilterConfigs : FilterPowerOn(cfg)

\* ------------------------------------------------------------ loop()
\* One iteration of loop() (lines 105-168) that reads millis() = n and the
\* magnitude acc.  The iteration is taken to last less than a millisecond:
\* the millis() calls of handleBuzzer, startBuzzer and line 150 read n too.
Iterate(n, acc) ==
    LET bz0   == HandleBuzzer([active |-> buzzerActive, steps |-> buzzerSteps,
                               timer |-> buzzerTimer, pin |-> buzzerPin], n)
        moved == Moved(acc, lastAcc)
        lmt1  == IF moved THEN n ELSE lastMovementTime
        trig1 == IF moved THEN FALSE ELSE inactivityTriggered
        fsm   == FallDetection(n, acc, lastFallTime, inLowWindow, lastLowTime,
                               fallDetected)
        ev    == fsm.fallDetected
        evt   == FallEventTimes(n)
        lft2  == IF ev THEN evt.lastFallTime ELSE lastFallTime
        lmt2  == IF ev THEN evt.lastMovementTime ELSE lmt1
        bz1   == IF ev THEN StartBuzzer(FALL_BEEPS, n) ELSE bz0
        trig2 == IF ev THEN TRUE ELSE trig1
        lbt2  == IF ev THEN n ELSE lastBuzzToggle
        due   == InactivityDue(trig2, n, lmt2, lbt2)
        bz2   == IF due THEN StartBuzzer(INACTIVITY_BEEPS, n) ELSE bz1
        opened == ~inLowWindow /\ fsm.inLowWindow
        toggled == bz0.steps # buzzerSteps
        started == ev \/ due
    IN  /\ now' = n
        /\ lastAcc' = acc
        /\ inLowWindow' = fsm.inLowWindow
        /\ lastLowTime' = fsm.lastLowTime
        /\ fallDetected' = (IF ev THEN ClearDetection(fsm.fallDetected)
                                   ELSE fsm.fallDetected)
        /\ lastFallTime' = lft2
        /\ lastMovementTime' = lmt2
        /\ inactivityTriggered' = trig2
        /\ lastBuzzToggle' = IF due THEN n ELSE lbt2
        /\ lastFallTimeStr' = IF ev THEN FormatTime(n) ELSE lastFallTimeStr
        /\ buzzerActive' = bz2.active /\ buzzerSteps' = bz2.steps
        /\ buzzerTimer' = bz2.timer /\ buzzerPin' = bz2.pin
        \* FallDetector, from the specification
        /\ lowGMag' = RecordLowG(opened, acc, lowGMag)
        /\ lastFall' = IF ev THEN BuildFallEvent(n, acc, lastLowTime, lowGMag)
                             ELSE lastFall
        \* observation
        /\ iters' = iters + 1
        /\ sampleAcc' = acc
        /\ prevAcc' = lastAcc
        /\ detected' = ev
        /\ buzzCalls' = (IF ev THEN <<FALL_BEEPS>> ELSE <<>>)
                        \o (IF due THEN <<INACTIVITY_BEEPS>> ELSE <<>>)
        /\ scenA' = IF scenA >= 0 /\ scenA < Len(ScenarioA)
                       /\ ScenarioA[scenA + 1] = <<n, acc>>
                    THEN scenA + 1 ELSE -1
        /\ runDetections' = IF FGreater(acc, FALL_HIGH_G)
                             THEN runDetections + (IF ev THEN 1 ELSE 0)
                             ELSE 0
        /\ openTime' = IF opened THEN n ELSE openTime
        /\ openAcc' = IF opened THEN acc ELSE openAcc
        /\ restSinceFall' = IF ev THEN TRUE ELSE restSinceFall /\ acc = REST_ACC
        /\ resets' = 0
        /\ stillSinceFall' = IF ev THEN TRUE
                             ELSE stillSinceFall /\ ~FApart(acc, lastAcc, MOVEMENT_DELTA)
        /\ alertsSinceFall' = IF ev THEN 0
                              ELSE IF due THEN alertsSinceFall + 1 ELSE alertsSinceFall
        /\ lastAlertTime' = IF due THEN n ELSE lastAlertTime
        /\ lastDeltaTime' = IF FApart(acc, lastAcc, MOVEMENT_DELTA) THEN n
                             ELSE lastDeltaTime
        /\ buzzRequested' = IF due THEN INACTIVITY_BEEPS
                             ELSE IF ev THEN FALL_BEEPS ELSE buzzRequested
        /\ buzzToggles' = IF started THEN 0
                           ELSE IF toggled THEN buzzToggles + 1 ELSE buzzToggles
        /\ buzzHigh' = IF started THEN 0
                        ELSE IF toggled /\ buzzerPin THEN buzzHigh + 1 ELSE buzzHigh
        /\ buzzEventTime' = IF started \/ toggled THEN n ELSE buzzEventTime
        /\ buzzInterrupted' = IF started THEN bz0.active ELSE buzzInterrupted
        \* line 148 runs after lines 145-146 and before lines 156-158
        /\ sinkState' = IF ev
                         THEN [called |-> TRUE,
                               lastFallTime |-> evt.lastFallTime,
                               lastMovementTime |-> evt.lastMovementTime,
                               inactivityTriggered |-> trig1,
                               lastBuzzToggle |-> lastBuzzToggle,
                               fallDetected |-> fsm.fallDetected,
                               inLowWindow |-> fsm.inLowWindow]
                         ELSE NoSink
        /\ UNCHANGED <<nodeVars, sendVars, advVars, filtVars>>

\* loop() runs first at millis() = 0 and then dt milliseconds after the
\* previous iteration, until the clock reaches the horizon or maxIters
\* iterations have run.
Loop(dts, accs, horizon, maxIters) ==
    \E dt \in (IF iters = 0 THEN {0} ELSE dts), acc \in accs :
        /\ now + dt <= horizon
        /\ iters < maxIters
        /\ Iterate(ClockAfter(now, dt), acc)

\* FallDetector, from the specification: reset() puts the detector back in
\* the state it is created in: the timers and flags of lines 31-39 and the
\* static lastAcc of line 121 take their initial values, the last-fall
\* record and the inactivity tracker are cleared.  The clock and the buzzer
\* are not the detector's.
Reset ==
    /\ resets < 2
    /\ lastLowTime' = 0 /\ lastFallTime' = 0
    /\ lastMovementTime' = 0 /\ lastBuzzToggle' = 0
    /\ inLowWindow' = FALSE /\ fallDetected' = FALSE
    /\ inactivityTriggered' = FALSE
    /\ lastAcc' = REST_ACC
    /\ lastFallTimeStr' = NA
    /\ lastFall' = NoFall /\ lowGMag' = 0
    /\ resets' = resets + 1
    /\ sampleAcc' = REST_ACC /\ prevAcc' = REST_ACC
    /\ detected' = FALSE /\ buzzCalls' = <<>>
    /\ scenA' = -1
    /\ runDetections' = 0 /\ openTime' = 0 /\ openAcc' = 0
    /\ stillSinceFall' = FALSE /\ restSinceFall' = FALSE
    /\ alertsSinceFall' = 0 /\ lastAlertTime' = 0 /\ sinkState' = NoSink
    /\ lastDeltaTime' = 0
    /\ UNCHANGED <<now, iters, buzzerActive, buzzerSteps, buzzerTimer, buzzerPin>>
    /\ UNCHANGED <<buzzRequested, buzzToggles, buzzHigh, buzzEventTime, buzzInterrupted>>
    /\ UNCHANGED <<nodeVars, sendVars, advVars, filtVars>>

\* FallDetector, from the specification (algorithm step 2): the cooldown
\* gate, now - lastFallTimestamp <= cooldownMs, which is the negation of the
\* test of line 129
IsInCooldown == ~CooldownOver(now, lastFallTime)

\* periodic sampling every 50 ms
Next == Loop(DtSet, AccSet, MaxTime, MaxIters)
Spec == Init /\ [][Next]_vars

\* loop() across a wraparound of millis(): as Loop, without a horizon, so
\* that the counter can pass ClockMod and start over
LoopWrap(dts, accs, maxIters) ==
    \E dt \in (IF iters = 0 THEN {0} ELSE dts), acc \in accs :
        /\ iters < maxIters
        /\ Iterate(ClockAfter(now, dt), acc)
NextWrap == LoopWrap(DtWrap, AccWrap, MaxItersWrap)
SpecWrap == Init /\ [][NextWrap]_vars

\* a few iterations with short and long periods
NextLong == Loop(DtLong, AccLong, MaxTimeLong, MaxItersLong)
SpecLong == Init /\ [][NextLong]_vars

\* sampling at the buzzer's toggle period, long enough for a fall's pattern
\* and an inactivity alert's pattern to run to their end
NextBuzz == Loop(DtBuzz, AccBuzz, MaxTimeBuzz, MaxItersBuzz)
SpecBuzz == Init /\ [][NextBuzz]_vars

\* the same iterations, with a motion source that can deliver NaN
NextNaN == Loop(DtLong, AccNaN, MaxTimeLong, MaxItersLong)
SpecNaN == Init /\ [][NextNaN]_vars

\* the same iterations, with reset() called between them
NextReset == Loop(DtLong, AccLong, MaxTimeLong, MaxItersLong) \/ Reset
SpecReset == Init /\ [][NextReset]_vars

\* ------------------------------------------------------------ receiver
\* OnDataRecv (receiver.ino:19-59) for a packet that carries distance d
OnDataRecv(d) ==
    /\ rxPackets < MaxPackets
    /\ incomingDistance' = d
    /\ motors' = MotorsAfter(d, motors)
    /\ rxPackets' = rxPackets + 1
    /\ rxIdle' = 0
    /\ prevDistance' = incomingDistance
    /\ prevMotors' = motors
    /\ UNCHANGED <<filtVars, advVars, progVars, detVars, obsVars, txVars, readVars, sendVars>>

\* loop() of the receiver (receiver.ino:86-88) is empty: dt milliseconds
\* without a packet pass and nothing is done
RxLoop(dt) ==
    /\ rxIdle + dt <= MaxIdle
    /\ rxIdle' = rxIdle + dt
    /\ UNCHANGED <<incomingDistance, motors, rxPackets, prevDistance, prevMotors>>
    /\ UNCHANGED <<filtVars, advVars, progVars, detVars, obsVars, txVars, linkVars, readVars, sendVars>>

\* a packet with distance d arrives from some sender
Receive(d) == OnDataRecv(d) /\ UNCHANGED air /\ rxEcho' = -1

NextRecv == (\E d \in DistSet : Receive(d)) \/ (\E dt \in IdleSet : RxLoop(dt))
SpecRecv == Init /\ [][NextRecv]_vars

\* ------------------------------------------------------------ transmitter
\* loop() of the transmitter (transmitter.ino:56-82) when pulseIn returns
\* duration: the distance is computed, stored and sent
TxLoop(duration) ==
    /\ txDuration' = duration
    /\ txDistance' = EchoToCm(duration)
    /\ txSent' = TRUE
    /\ air' = <<[distance |-> EchoToCm(duration), echo |-> duration]>>
    /\ UNCHANGED <<filtVars, advVars, progVars, detVars, obsVars, rxVars, rxEcho, readVars, sendVars>>

NextXmit == \E duration \in DurSet : TxLoop(duration)
SpecXmit == Init /\ [][NextXmit]_vars

\* ------------------------------------------------------------ link
\* esp_now_send (transmitter.ino:74-76) to the receive callback registered
\* at receiver.ino:83: the packet in the air reaches the receiver
Deliver ==
    /\ air # <<>>
    /\ OnDataRecv(air[1].distance)
    /\ rxEcho' = air[1].echo
    /\ air' = <<>>

\* the packet in the air is lost (OnDataSent, transmitter.ino:18-25,
\* reports "Delivery fail" and nothing else is done)
Lose ==
    /\ air # <<>>
    /\ air' = <<>>
    /\ UNCHANGED <<filtVars, advVars, progVars, detVars, obsVars, rxVars, txVars, rxEcho, readVars, sendVars>>

\* transmitter and receiver together
NextLink ==
    \/ \E duration \in DurLink : TxLoop(duration)
    \/ Deliver
    \/ Lose
    \/ \E d \in DistLink : Receive(d)
    \/ \E dt \in IdleSet : RxLoop(dt)
SpecLink == Init /\ [][NextLink]_vars

\* ------------------------------------------------------------ basic transmitter
\* readSensors (basic_setup.ino:98-140) when pulseIn returns duration.  The
\* battery level, temperature and timestamp it also stores are not
\* modelled: they take no part in the distance.
ReadSensors(duration) ==
    /\ sensorDistance' = StoreReading(EchoToCm(duration), sensorDistance)
    /\ bsRead' = TRUE
    /\ bsReading' = EchoToCm(duration)
    /\ bsLastValid' = IF EchoToCm(duration) >= 2 /\ EchoToCm(duration) <= 400
                       THEN EchoToCm(duration) ELSE bsLastValid
    /\ UNCHANGED <<filtVars, advVars, progVars, detVars, obsVars, rxVars, txVars, linkVars, sendVars>>

NextRead == \E duration \in DurSet : ReadSensors(duration)
SpecRead == Init /\ [][NextRead]_vars

\* transmitData (basic_setup.ino:142-172), one action per step at which
\* the asynchronous onDataSent can come in between.
\* lines 143-144
TdEnter ==
    /\ tdPc = "idle" /\ tdCalls < MaxTransmits
    /\ sendSuccess' = FALSE /\ retryCount' = 0
    /\ tdPc' = "test"
    /\ tdSends' = 0 /\ tdOk' = FALSE /\ tdFailedMsg' = FALSE /\ tdDone' = FALSE
    /\ UNCHANGED <<pendingCb, tdCalls>>
    /\ UNCHANGED <<filtVars, advVars, progVars, detVars, obsVars, nodeVars>>

\* line 146
TdTest ==
    /\ tdPc = "test"
    /\ tdPc' = IF RetryWanted(sendSuccess, retryCount) THEN "send" ELSE "after"
    /\ UNCHANGED <<sendSuccess, retryCount, pendingCb,
                   tdCalls, tdSends, tdOk, tdFailedMsg, tdDone>>
    /\ UNCHANGED <<filtVars, advVars, progVars, detVars, obsVars, nodeVars>>

\* lines 147-155: esp_now_send returns ESP_OK (the packet is queued and its
\* callback will follow) or an error
TdSend(ok) ==
    /\ tdPc = "send"
    /\ ok => pendingCb < MaxPending
    /\ tdSends' = tdSends + 1
    /\ tdOk' = (tdOk \/ ok)
    /\ pendingCb' = IF ok THEN pendingCb + 1 ELSE pendingCb
    /\ tdPc' = IF ok THEN "after" ELSE "delay"
    /\ UNCHANGED <<sendSuccess, retryCount, tdCalls, tdFailedMsg, tdDone>>
    /\ UNCHANGED <<filtVars, advVars, progVars, detVars, obsVars, nodeVars>>

\* lines 156-157: the retry delay is over
TdDelay ==
    /\ tdPc = "delay"
    /\ retryCount' = retryCount + 1
    /\ tdPc' = "test"
    /\ UNCHANGED <<sendSuccess, pendingCb, tdCalls, tdSends, tdOk, tdFailedMsg, tdDone>>
    /\ UNCHANGED <<filtVars, advVars, progVars, detVars, obsVars, nodeVars>>

\* lines 161-172
TdAfter ==
    /\ tdPc = "after"
    /\ tdFailedMsg' = GaveUp(sendSuccess, retryCount)
    /\ tdPc' = "idle"
    /\ tdDone' = TRUE
    /\ tdCalls' = tdCalls + 1
    /\ UNCHANGED <<sendSuccess, retryCount, pendingCb, tdSends, tdOk>>
    /\ UNCHANGED <<filtVars, advVars, progVars, detVars, obsVars, nodeVars>>

\* onDataSent (basic_setup.ino:174-186) for the oldest outstanding packet;
\* it runs while the sketch waits: in the retry delay (line 156) or
\* outside transmitData (the delay of loop, line 53)
OnDataSent(sendStatus) ==
    /\ pendingCb > 0
    /\ tdPc \in {"delay", "idle"}
    /\ sendSuccess' = (sendStatus = 0)
    /\ pendingCb' = pendingCb - 1
    /\ UNCHANGED <<tdPc, retryCount, tdCalls, tdSends, tdOk, tdFailedMsg, tdDone>>
    /\ UNCHANGED <<filtVars, advVars, progVars, detVars, obsVars, nodeVars>>

NextSend ==
    \/ TdEnter
    \/ TdTest
    \/ \E ok \in BOOLEAN : TdSend(ok)
    \/ TdDelay
    \/ TdAfter
    \/ \E sendStatus \in {0, 1} : OnDataSent(sendStatus)
SpecSend == Init /\ [][NextSend]_vars

\* ------------------------------------------------ advanced transmitter
\* systemState of part_005 as a record of the fields the sketch branches on
SystemStateNow ==
    [operational |-> operational, currentMode |-> currentMode,
     errorCount |-> errorCount, transmissionCount |-> transmissionCount]

\* initializeAdvanced (part_005:94-140): when esp_now_init fails it counts
\* an error and returns before systemState is assigned
InitializeAdvanced(st, espOk) ==
    IF ~espOk
    THEN [st EXCEPT !.errorCount = (st.errorCount + 1) % 256]
    ELSE [operational |-> TRUE, currentMode |-> "MODE_NORMAL",
          errorCount |-> 0, transmissionCount |-> 0]

\* performSelfTest (part_005:142-187)
PerformSelfTest(st, tests) ==
    IF \A i \in 1..4 : tests[i]
    THEN [st EXCEPT !.operational = TRUE]
    ELSE [st EXCEPT !.operational = FALSE, !.currentMode = "MODE_SAFE"]

\* transmitAdvancedData (part_005:303-324); sendOk is the result of
\* esp_now_send
TransmitAdvancedData(st, sendOk) ==
    IF ~st.operational THEN st
    ELSE IF sendOk
         THEN [st EXCEPT !.transmissionCount = (st.transmissionCount + 1) % 65536]
         ELSE [st EXCEPT !.errorCount = (st.errorCount + 1) % 256]

\* handleSystemErrors (part_005:368-372): the condition of ESP.restart()
TooManyErrors(st, cfg) == st.errorCount > cfg.maxErrors

\* managePower without hysteresis: power save is left as soon as the level
\* is no longer below the low threshold
ManagePower_NoHysteresis(mode, level, cfg) ==
    IF level < cfg.low
    THEN (IF mode # "MODE_POWER_SAVE" THEN "MODE_POWER_SAVE" ELSE mode)
    ELSE (IF mode = "MODE_POWER_SAVE" THEN "MODE_NORMAL" ELSE mode)

\* managePower (part_005:334-349): the mode it leaves
ManagePower(mode, level, cfg) ==
    IF level < cfg.low
    THEN (IF mode # "MODE_POWER_SAVE" THEN "MODE_POWER_SAVE" ELSE mode)
    ELSE IF level > cfg.recovery
         THEN (IF mode = "MODE_POWER_SAVE" THEN "MODE_NORMAL" ELSE mode)
         ELSE mode

\* managePower (part_005:340, 346): the call it makes, "none" if none
PowerCall(mode, level, cfg) ==
    IF level < cfg.low
    THEN (IF mode # "MODE_POWER_SAVE" THEN "enter" ELSE "none")
    ELSE IF level > cfg.recovery
         THEN (IF mode = "MODE_POWER_SAVE" THEN "exit" ELSE "none")
         ELSE "none"

\* setup() (part_005:43-64): initializeAdvanced, then performSelfTest
AdvSetup(espOk, tests) ==
    /\ ~advBooted
    /\ LET st == PerformSelfTest(InitializeAdvanced(SystemStateNow, espOk), tests)
       IN  /\ operational' = st.operational
           /\ currentMode' = st.currentMode
           /\ errorCount' = st.errorCount
           /\ transmissionCount' = st.transmissionCount
    /\ cbRegistered' = espOk
    /\ batteryLevel' = 0
    /\ advBooted' = TRUE
    /\ UNCHANGED <<advCfg, advPending, advLoops, powerCalls>>
    /\ UNCHANGED <<progVars, detVars, obsVars, nodeVars, sendVars, filtVars>>

\* One iteration of loop() (part_005:66-92) in which readBattery stores
\* level and esp_now_send, if called, returns sendOk.  ESP.restart() in
\* handleSystemErrors does not return: the chip starts over with its
\* globals zeroed, and setup() follows.
AdvLoop(level, sendOk) ==
    /\ advBooted /\ advLoops < MaxAdvLoops
    /\ LET st      == TransmitAdvancedData(SystemStateNow, sendOk)
           queued  == operational /\ sendOk /\ cbRegistered
           restart == TooManyErrors(st, advCfg)
       IN  /\ queued => advPending < MaxAdvPending
           /\ IF restart
              THEN /\ operational' = FALSE /\ currentMode' = advCfg.zeroMode
                   /\ errorCount' = 0 /\ transmissionCount' = 0
                   /\ batteryLevel' = 0
                   /\ cbRegistered' = FALSE /\ advPending' = 0
                   /\ advBooted' = FALSE
                   /\ powerCalls' = <<>>
              ELSE /\ operational' = st.operational
                   /\ currentMode' = ManagePower(st.currentMode, level, advCfg)
                   /\ errorCount' = st.errorCount
                   /\ transmissionCount' = st.transmissionCount
                   /\ batteryLevel' = level
                   /\ advPending' = IF queued THEN advPending + 1 ELSE advPending
                   /\ powerCalls' =
                        LET call == PowerCall(st.currentMode, level, advCfg)
                        IN  IF call = "none" THEN powerCalls
                            ELSE Append(powerCalls, call)
                   /\ UNCHANGED <<cbRegistered, advBooted>>
    /\ advLoops' = advLoops + 1
    /\ UNCHANGED advCfg
    /\ UNCHANGED <<progVars, detVars, obsVars, nodeVars, sendVars, filtVars>>

\* onAdvancedDataSent (part_005:326-332), between two iterations of loop();
\* its sendSuccess is read nowhere in the sketch and is left out
OnAdvancedDataSent(sendStatus) ==
    /\ advBooted /\ advPending > 0
    /\ advPending' = advPending - 1
    /\ errorCount' = IF sendStatus = 0 THEN errorCount
                                       ELSE (errorCount + 1) % 256
    /\ UNCHANGED <<advCfg, operational, currentMode, transmissionCount,
                   batteryLevel, cbRegistered, advBooted, advLoops, powerCalls>>
    /\ UNCHANGED <<progVars, detVars, obsVars, nodeVars, sendVars, filtVars>>

NextAdv ==
    \/ \E espOk \in BOOLEAN, tests \in TestSet : AdvSetup(espOk, tests)
    \/ \E level \in BatSet, sendOk \in BOOLEAN : AdvLoop(level, sendOk)
    \/ \E sendStatus \in {0, 1} : OnAdvancedDataSent(sendStatus)
SpecAdv == InitAdv /\ [][NextAdv]_vars

\* ------------------------------- advanced transmitter, distance path
\* readDistance (part_005:239-256): what it stores for an echo duration
ReadDistance(duration, cfg) ==
    LET distance == EchoToCm(duration)
    IN  IF distance >= MIN_DISTANCE_CM /\ distance <= MAX_DISTANCE_CM
        THEN distance ELSE cfg.invalidReading

\* sortArray (part_005:401-411), arr indexed from 1: the inner loop from
\* j (0-based j - 1) to the last pair of the pass
RECURSIVE BubblePass(_, _, _)
BubblePass(arr, j, last) ==
    IF j > last THEN arr
    ELSE BubblePass(IF arr[j] > arr[j + 1]
                    THEN [arr EXCEPT ![j] = arr[j + 1], ![j + 1] = arr[j]]
                    ELSE arr,
                    j + 1, last)
\* the outer loop from pass i (0-based)
RECURSIVE SortPasses(_, _, _)
SortPasses(arr, i, size) ==
    IF i >= size - 1 THEN arr
    ELSE SortPasses(BubblePass(arr, 1, size - i - 1), i + 1, size)
SortArray(arr, size) == SortPasses(arr, 0, size)

\* processSensorData (part_005:277-291): the buffer, the index and the
\* distance it leaves, given the distance readDistance stored
ProcessSensorData(buf, index, distance, size) ==
    LET buf1   == [buf EXCEPT ![index + 1] = distance]
        sorted == SortArray(buf1, size)
    IN  [distanceReadings |-> buf1,
         readingIndex |-> (index + 1) % size,
         distance |-> sorted[(size \div 2) + 1]]

\* The distance path of one iteration of loop() (part_005:71-77):
\* readDistance for an echo of the given duration, processSensorData, and
\* the distance transmitAdvancedData then sends.  The rest of the iteration
\* is AdvLoop; the two share no variable.
FilterCycle(duration) ==
    /\ filtCycles < MaxFiltCycles
    /\ LET raw == ReadDistance(duration, filtCfg)
           res == ProcessSensorData(distanceReadings, readingIndex, raw,
                                    filtCfg.filterSize)
       IN  /\ distanceReadings' = res.distanceReadings
           /\ readingIndex' = res.readingIndex
           /\ advDistance' = res.distance
           /\ rawReadings' = Append(rawReadings, raw)
    /\ filtCycles' = filtCycles + 1
    /\ UNCHANGED filtCfg
    /\ UNCHANGED <<progVars, detVars, obsVars, nodeVars, sendVars, advVars>>

NextFilter == \E duration \in DurFilt : FilterCycle(duration)
SpecFilter == InitFilter /\ [][NextFilter]_vars

\* ------------------------------------------------------------ properties
\* A fall has been detected (the last-fall slot is not the sentinel).
HasFall == lastFall.isEmergency
\* Time from the latest fall to the latest sample.
SinceFall == USub(now, lastFall.timestamp)

\* C1: after a fall at time T no sample with timestamp in (T, T + COOLDOWN_MS]
\* produces another fall, whatever its magnitude; so two falls are more than
\* COOLDOWN_MS apart.
C1_CooldownEnforced ==
    [][(HasFall /\ USub(now', lastFall.timestamp) <= COOLDOWN_MS) => ~detected']_vars

\* C1 witness: inside the cooldown a dip followed by an impact was sampled
\* and not detected.
C1_Witness ==
    /\ HasFall /\ ~detected
    /\ SinceFall > 0 /\ SinceFall <= COOLDOWN_MS
    /\ prevAcc < FALL_LOW_G /\ sampleAcc > FALL_HIGH_G

\* C2: a detection needs an open low-g window and closes it (one detection
\* per low-g -> high-g transition), and a run of consecutive samples above
\* FALL_HIGH_G holds at most one detection.
C2_EdgeTriggered ==
    /\ [](runDetections <= 1)
    /\ [][detected' => (inLowWindow /\ ~inLowWindow')]_vars

\* C2 witness: a high-g run that was detected once has lasted beyond the
\* cooldown without a second detection.
C2_Witness ==
    /\ HasFall /\ runDetections = 1 /\ ~detected
    /\ sampleAcc > FALL_HIGH_G /\ prevAcc > FALL_HIGH_G
    /\ SinceFall > COOLDOWN_MS

\* C3: a dip at time T not followed by a high-g sample before T + WINDOW_MS
\* never produces a fall (no detection on a sample later than T + WINDOW_MS),
\* and the window is closed by the first sample after T + WINDOW_MS.
C3_WindowExpiry ==
    /\ detected => USub(now, openTime) <= WINDOW_MS
    /\ inLowWindow => USub(now, openTime) <= WINDOW_MS

\* C4: from the initial state the samples of Scenario A end in a detection
\* on the fourth sample (t = 150, 3.0 g).
C4_StartsNormal == scenA = Len(ScenarioA) => detected

\* Scenario D: the second spike comes 1500 - 150 ms after the fall.
ScenarioDGap == 1500 - 150

\* C5, as stated: a high-g sample 1350 ms after a fall produces no second
\* detection.
C5_Original ==
    [][(HasFall /\ USub(now', lastFall.timestamp) = ScenarioDGap
        /\ sampleAcc' > FALL_HIGH_G) => ~detected']_vars

\* C5, amended: the cooldown of a fall at T is over after T + COOLDOWN_MS (a
\* low-g sample between T + COOLDOWN_MS and T + 1350 opens a window when none
\* is open), and a high-g sample at T + 1350 is a second detection exactly
\* when a low-g window is open at that sample.
C5_Amended ==
    [][/\ (HasFall /\ ~inLowWindow /\ sampleAcc' < FALL_LOW_G
           /\ USub(now', lastFall.timestamp) > COOLDOWN_MS
           /\ USub(now', lastFall.timestamp) < ScenarioDGap) => inLowWindow'
       /\ (HasFall /\ USub(now', lastFall.timestamp) = ScenarioDGap
           /\ sampleAcc' > FALL_HIGH_G) => (detected' <=> inLowWindow)]_vars

\* C5 witness: a high-g sample 1350 ms after the previous fall was sampled
\* with no window open and was not detected.
C5_Witness ==
    /\ HasFall /\ SinceFall = ScenarioDGap
    /\ sampleAcc > FALL_HIGH_G /\ ~detected

\* An inactivity alert was raised by the latest iteration.
InactivityAlerted == \E i \in 1..Len(buzzCalls) : buzzCalls[i] = INACTIVITY_BEEPS

\* C6: after a fall at T with no delta above MOVEMENT_DELTA between
\* consecutive samples since, every sample later than T + 10000 ms finds an
\* inactivity alert raised since the fall, and the latest one at most
\* 10000 ms old: the alert fires on the first sample past the timeout and
\* again on the first sample past each re-alert interval.
C6_InactivityEscalation ==
    (HasFall /\ stillSinceFall /\ SinceFall > INACTIVITY_TIMEOUT_MS)
        => /\ alertsSinceFall >= 1
           /\ USub(now, lastAlertTime) <= INACTIVITY_REALERT_MS

\* C6 witness: the alert has fired twice after one fall without movement.
C6_Witness == HasFall /\ stillSinceFall /\ alertsSinceFall >= 2

\* C7: after a fall at T followed only by samples at the 1.0 g rest
\* baseline, the inactivity warning has been raised by the first sample
\* later than T + 10000 ms.
C7_ScenarioC ==
    (HasFall /\ restSinceFall /\ SinceFall > INACTIVITY_TIMEOUT_MS)
        => alertsSinceFall >= 1

\* C8, as stated: a sample whose delta to its predecessor is at least
\* MOVEMENT_DELTA (and that is not itself a fall) clears the triggered flag.
C8_Original ==
    (HasFall /\ ~detected /\ Abs(sampleAcc - prevAcc) >= MOVEMENT_DELTA)
        => ~inactivityTriggered

\* C8, amended: a sample whose delta to its predecessor is strictly greater
\* than MOVEMENT_DELTA (and that is not itself a fall) clears the triggered
\* flag, and once such a delta has been seen after the fall the flag stays
\* clear and no inactivity alert fires until another fall.
C8_Amended ==
    /\ (~detected /\ Abs(sampleAcc - prevAcc) > MOVEMENT_DELTA)
           => ~inactivityTriggered
    /\ ~stillSinceFall => (~inactivityTriggered /\ ~InactivityAlerted)

\* C8 witness: a movement followed the fall, the inactivity timeout has
\* passed since the fall and the latest sample raised no alert.
C8_Witness ==
    /\ HasFall /\ ~stillSinceFall /\ ~detected
    /\ SinceFall > INACTIVITY_TIMEOUT_MS
    /\ ~inactivityTriggered /\ buzzCalls = <<>>

\* C9: after reset(), once or twice in a row, the detector is Normal (no
\* low-g window), the last-fall record is the sentinel, the inactivity
\* tracker is cleared and isInCooldown() is false.
C9_ResetRestoresInitial ==
    resets > 0
        => /\ ~inLowWindow /\ ~fallDetected
           /\ lastFall = NoFall /\ lastFallTimeStr = NA
           /\ ~inactivityTriggered /\ lastMovementTime = 0 /\ lastBuzzToggle = 0
           /\ ~IsInCooldown

\* C10: a detection stores the event of the triggering sample: its time,
\* the magnitude of the sample that opened the window as minimum, its own
\* magnitude as maximum, the time since the window opened as duration, and
\* isEmergency; the slot's time is that of the latest fall.
C10_FallEventRecord ==
    /\ detected => lastFall = [timestamp |-> now,
                               maxAcceleration |-> sampleAcc,
                               minAcceleration |-> openAcc,
                               duration |-> USub(now, openTime),
                               isEmergency |-> TRUE]
    /\ HasFall => lastFall.timestamp = lastFallTime

\* C10 witness: a fall whose window was opened by 0.25 g and saw a lower
\* 0.2 g sample right before the impact.
C10_Witness ==
    /\ detected /\ prevAcc < openAcc
    /\ lastFall.minAcceleration = openAcc /\ lastFall.duration > 0

\* C11: every fall detection starts the buzzer with the emergency pattern
\* of EMERGENCY_BEEP_COUNT beeps.
C11_EmergencyBeeps ==
    detected => /\ Len(buzzCalls) >= 1 /\ buzzCalls[1] = EMERGENCY_BEEP_COUNT
                /\ buzzerActive /\ buzzerSteps = 2 * EMERGENCY_BEEP_COUNT

\* Hours, minutes and seconds of a millisecond uptime, on a 24-hour clock.
HMS(ms) == <<(ms \div 3600000) % 24, (ms \div 60000) % 60, (ms \div 1000) % 60>>

\* C12: fallTime is "N/A" exactly while no fall has been detected; after
\* that it is the HH:MM:SS time of the latest detected fall, and only a
\* detection changes it.
C12_FallTimeString ==
    /\ [](lastFallTimeStr = NA <=> ~HasFall)
    /\ [](HasFall => lastFallTimeStr = HMS(lastFall.timestamp))
    /\ [][lastFallTimeStr' # lastFallTimeStr => detected']_vars

\* C12 witness: a second fall has overwritten the time of the first, and
\* later samples have left the string alone.
C12_Witness ==
    /\ HasFall /\ ~detected /\ SinceFall > 0
    /\ lastFall.timestamp > INACTIVITY_TIMEOUT_MS + COOLDOWN_MS
    /\ lastFallTimeStr = HMS(lastFall.timestamp)
    /\ lastFallTimeStr # HMS(INACTIVITY_TIMEOUT_MS)

\* The motors that are driven HIGH, now and after the packet before.
MotorsOn == {i \in 1..NUM_MOTORS : motors[i]}
PrevMotorsOn == {i \in 1..NUM_MOTORS : prevMotors[i]}

\* C13: after any packet the motors driven HIGH are a prefix
\* MOTOR1..MOTORk, with k = 0 for d > 100, 1 for 80 < d < 100, 2 for
\* 60 < d < 80, 3 for 40 < d < 60, 4 for 20 < d < 40 and 5 for d < 20,
\* whatever the motors were before; and of two consecutive packets the one
\* with the larger distance drives no more motors than the other.
C13_ProgressiveMapping ==
    rxPackets > 0 =>
        LET d == incomingDistance
        IN  /\ \E k \in 0..NUM_MOTORS : MotorsOn = 1..k
            /\ d > 100 => MotorsOn = {}
            /\ (80 < d /\ d < 100) => MotorsOn = 1..1
            /\ (60 < d /\ d < 80) => MotorsOn = 1..2
            /\ (40 < d /\ d < 60) => MotorsOn = 1..3
            /\ (20 < d /\ d < 40) => MotorsOn = 1..4
            /\ d < 20 => MotorsOn = 1..5
            /\ (rxPackets > 1 /\ prevDistance <= d)
                   => Cardinality(PrevMotorsOn) >= Cardinality(MotorsOn)
            /\ (rxPackets > 1 /\ prevDistance >= d)
                   => Cardinality(PrevMotorsOn) <= Cardinality(MotorsOn)

\* C13 witness: a packet beyond 100 cm arrived while all five motors were
\* on and switched them all off.
C13_Witness ==
    /\ rxPackets = 2 /\ prevDistance < 20 /\ PrevMotorsOn = 1..5
    /\ incomingDistance > 100 /\ MotorsOn = {}

\* C14: all five motors are on exactly for distances strictly below 20 cm,
\* and a distance of exactly 20 cm drives motors 1-4 only.
C14_FiveMotorsBelow20 ==
    rxPackets > 0 =>
        /\ MotorsOn = 1..5 <=> incomingDistance < 20
        /\ incomingDistance = 20 => MotorsOn = 1..4

\* C15: once no packet has arrived for more than WATCHDOG_TIMEOUT, the
\* motors are no longer held in the pattern of the last packet (the
\* receiver has reset or raised the data-loss alert).
C15_DataLossSafety ==
    (rxPackets > 0 /\ rxIdle > WATCHDOG_TIMEOUT /\ incomingDistance <= LEVEL_1_MAX)
        => motors # MotorsAfter(incomingDistance, AllLow)

\* C16: every distance the transmitter sends lies within the detection
\* range MIN_DISTANCE..MAX_DISTANCE, for every echo duration.
C16_ValidatedRange ==
    txSent => (MIN_DISTANCE <= txDistance /\ txDistance <= MAX_DISTANCE)

\* C17: a sample processed inside the cooldown (now - lastFallTime <=
\* COOLDOWN_MS) leaves the low-g window flag and its start time unchanged
\* and detects no fall; and every sample that is not a fall, inside the
\* cooldown as outside, gets the same movement tracking (previous
\* magnitude, last-movement time, triggered flag) and the same inactivity
\* alert test.
C17_CooldownFreezesOnlyFsm ==
    [][iters' = iters + 1 =>
        LET moved == Abs(sampleAcc' - lastAcc) > MOVEMENT_DELTA
        IN  /\ USub(now', lastFallTime) <= COOLDOWN_MS
                   => /\ inLowWindow' = inLowWindow
                      /\ lastLowTime' = lastLowTime
                      /\ ~detected'
            /\ ~detected'
                   => /\ lastAcc' = sampleAcc'
                      /\ lastMovementTime' = IF moved THEN now' ELSE lastMovementTime
                      /\ inactivityTriggered' = IF moved THEN FALSE
                                                 ELSE inactivityTriggered
                      /\ InactivityAlerted'
                             <=> /\ inactivityTriggered'
                                 /\ USub(now', lastMovementTime') > INACTIVITY_TIMEOUT_MS
                                 /\ USub(now', lastBuzzToggle) > INACTIVITY_REALERT_MS]_vars

\* C17 witness: a low-g sample inside the cooldown of a fall opened no
\* window and was recorded as a movement.
C17_Witness ==
    /\ HasFall /\ SinceFall > 0 /\ SinceFall <= COOLDOWN_MS
    /\ sampleAcc < FALL_LOW_G /\ ~inLowWindow
    /\ lastMovementTime = now /\ ~inactivityTriggered /\ lastAcc = sampleAcc

\* C18: after any sample the detector is not both in the low-g window and
\* in cooldown, and a detection leaves the low-g window closed.
C18_OneStateActive ==
    /\ inLowWindow => USub(now, lastFallTime) > COOLDOWN_MS
    /\ detected => ~inLowWindow

\* C18 witness: a low-g window is open after the cooldown of an earlier
\* fall has passed.
C18_Witness == HasFall /\ inLowWindow /\ SinceFall > COOLDOWN_MS

\* C19: when the alert sink is invoked for a fall, every update of that
\* detection has been applied: last-fall and last-movement time are the
\* sample's, the inactivity flag is armed, the re-alert timestamp is the
\* sample's, the detection flag is cleared and the window is closed.
C19_SinkCalledLast ==
    detected => /\ sinkState.called
                /\ sinkState.lastFallTime = now
                /\ sinkState.lastMovementTime = now
                /\ sinkState.inactivityTriggered
                /\ sinkState.lastBuzzToggle = now
                /\ ~sinkState.fallDetected
                /\ ~sinkState.inLowWindow

\* C20: a NaN sample changes neither the low-g window state, nor the
\* fall/cooldown state, nor the inactivity tracker, nor the remembered
\* previous magnitude.
C20_NaNNoTransition ==
    [][(iters' = iters + 1 /\ sampleAcc' = NaN) =>
           /\ inLowWindow' = inLowWindow /\ lastLowTime' = lastLowTime
           /\ ~detected' /\ lastFallTime' = lastFallTime
           /\ lastMovementTime' = lastMovementTime
           /\ inactivityTriggered' = inactivityTriggered
           /\ lastAcc' = lastAcc]_vars

\* C21: an inactivity alert fires only more than 10000 ms after the latest
\* movement delta and after the latest fall, and more than 10000 ms after
\* the previous inactivity alert; so no two alerts are 10000 ms or less
\* apart and none comes within 10000 ms of a fall.
C21_AlertsRateLimited ==
    [][InactivityAlerted' =>
           /\ HasFall'
           /\ now' - lastDeltaTime' > 10000
           /\ now' - lastFall'.timestamp > 10000
           /\ alertsSinceFall > 0 => now' - lastAlertTime > 10000]_vars

\* C21 witness: after a first alert, a sample that still finds the flag set
\* and the inactivity timeout passed raises no alert, the previous one
\* being at most 10000 ms old.
C21_Witness ==
    /\ HasFall /\ inactivityTriggered /\ alertsSinceFall >= 1
    /\ now - lastDeltaTime > 10000 /\ SinceFall > 10000
    /\ ~InactivityAlerted /\ now - lastAlertTime > 0
    /\ now - lastAlertTime <= 10000

\* C22: whenever an inactivity alert fires, a fall has been detected
\* earlier and no delta above the threshold has been seen since that fall;
\* the triggered flag is set only by a detection and cleared only by a
\* movement delta.
C22_AlertOnlyAfterFall ==
    /\ [](InactivityAlerted => (HasFall /\ ~detected /\ stillSinceFall))
    /\ [][(inactivityTriggered' /\ ~inactivityTriggered) => detected']_vars
    /\ [][(iters' = iters + 1 /\ inactivityTriggered /\ ~inactivityTriggered')
              => Abs(sampleAcc' - lastAcc) > MOVEMENT_DELTA]_vars

\* C22 witness: an alert has just been raised after a fall whose own
\* sample carried the latest movement delta.
C22_Witness ==
    /\ InactivityAlerted /\ HasFall /\ stillSinceFall
    /\ inactivityTriggered /\ lastDeltaTime = lastFall.timestamp

\* C23: outside the cooldown, a sample below FALL_LOW_G followed within
\* WINDOW_MS by a sample above FALL_HIGH_G gives a detection no later than
\* the high-g sample.  Stated for two consecutive samples: the low-g one
\* passed the gate and was no detection, the next one is the high-g one.
C23_DetectionComplete ==
    [][(/\ iters' = iters + 1 /\ iters > 0
        /\ sampleAcc < FALL_LOW_G /\ USub(now, lastFallTime) > COOLDOWN_MS
        /\ sampleAcc' > FALL_HIGH_G /\ now' - now <= WINDOW_MS)
            => detected']_vars

\* C24: fallDetected is false between iterations, and the fall-event block
\* (fall time recorded, 2-beep pattern started, inactivity tracker armed)
\* runs in exactly the iterations that see a high-g sample with the window
\* open and the cooldown over, once each.
C24_DetectionConsumedOnce ==
    /\ [](~fallDetected)
    /\ [][iters' = iters + 1 =>
             /\ detected' <=> /\ inLowWindow /\ sampleAcc' > FALL_HIGH_G
                               /\ USub(now', lastFallTime) > COOLDOWN_MS
             /\ detected' => /\ lastFallTime' = now' /\ sinkState'.called
                              /\ buzzCalls' = <<2>> /\ inactivityTriggered'
             /\ ~detected' => /\ lastFallTime' = lastFallTime
                               /\ ~sinkState'.called
                               /\ \A i \in 1..Len(buzzCalls') : buzzCalls'[i] # 2]_vars

\* C24 witness: the iteration after a detection saw another high-g sample
\* and did not run the fall-event block again.
C24_Witness ==
    /\ HasFall /\ ~detected /\ ~fallDetected /\ ~sinkState.called
    /\ sampleAcc > FALL_HIGH_G /\ prevAcc > FALL_HIGH_G
    /\ lastFallTime = lastFall.timestamp /\ SinceFall > 0
    /\ SinceFall <= COOLDOWN_MS

\* C25: after startBuzzer(n) and until the next startBuzzer call,
\* handleBuzzer toggles whenever at least 300 ms have passed since the call
\* or the previous toggle and never earlier; the pattern is active until
\* the toggle number 2n, which ends it with the pin LOW, and of the 2n
\* intervals between the call and the toggles the pin was HIGH in n.
C25_BuzzerPattern ==
    /\ [](buzzRequested >= 1 =>
             /\ buzzerActive => buzzToggles < 2 * buzzRequested
             /\ ~buzzerActive => /\ buzzToggles = 2 * buzzRequested
                                  /\ buzzHigh = buzzRequested
                                  /\ ~buzzerPin)
    /\ [][(iters' = iters + 1 /\ buzzToggles' = buzzToggles + 1)
              => now' - buzzEventTime >= 300]_vars
    /\ [][(iters' = iters + 1 /\ buzzerActive /\ now' - buzzEventTime >= 300)
              => (buzzToggles' = buzzToggles + 1 \/ buzzCalls' # <<>>)]_vars

\* C25 witness: the five beeps of an inactivity alert have run to their
\* end.
C25_Witness ==
    /\ buzzRequested = 5 /\ ~buzzerActive /\ ~buzzerPin
    /\ buzzToggles = 10 /\ buzzHigh = 5

\* C26: between iterations, an inactive buzzer has its pin LOW and an
\* active one has between 1 and 10 steps left.
C26_BuzzerInvariant ==
    /\ ~buzzerActive => ~buzzerPin
    /\ buzzerActive => (1 <= buzzerSteps /\ buzzerSteps <= 10)

\* C26 witness: an inactivity alert started its pattern while the pattern
\* of the fall was still running, and that pattern has ended since.
C26_Witness ==
    /\ buzzInterrupted /\ buzzRequested = INACTIVITY_BEEPS
    /\ ~buzzerActive /\ ~buzzerPin /\ buzzerSteps = 0

\* C27: an echo that timed out is sent as distance 0; and after the
\* receiver has handled a packet with a distance of 20 or less (0 and
\* negative values included) all five motors are HIGH, and stay so for as
\* long as no other packet is handled.
C27_NoEchoEndToEnd ==
    /\ (txSent /\ txDuration = 0)
           => (txDistance = 0 /\ (air = <<>> \/ air[1].distance = 0))
    /\ (rxPackets > 0 /\ rxEcho = 0) => incomingDistance = 0
    /\ (rxPackets > 0 /\ incomingDistance <= 20) => MotorsOn = 1..5

\* C27 witness: the packet of a timed-out echo was delivered and the
\* receiver has held all five motors HIGH for 7.5 s since.
C27_Witness ==
    /\ rxPackets > 0 /\ rxEcho = 0 /\ incomingDistance = 0
    /\ MotorsOn = 1..5 /\ rxIdle > WATCHDOG_TIMEOUT

\* C28: after every readSensors() the stored distance is not 0 and lies in
\* 2..400: a reading in range replaces it, a reading out of range leaves
\* the latest reading in range, or gives 100 when there has been none.
C28_StoredDistanceValid ==
    bsRead =>
        /\ sensorDistance # 0 /\ sensorDistance >= 2 /\ sensorDistance <= 400
        /\ (bsReading >= 2 /\ bsReading <= 400) => sensorDistance = bsReading
        /\ ~(bsReading >= 2 /\ bsReading <= 400)
               => sensorDistance = IF bsLastValid = 0 THEN 100 ELSE bsLastValid

\* C28 witness: a timed-out echo after a reading of 57 cm left the 57 cm.
C28_Witness ==
    /\ bsRead /\ bsReading = 0 /\ bsLastValid = 57 /\ sensorDistance = 57

\* C29: a call of transmitData makes at most MAX_RETRIES calls of
\* esp_now_send and ends in exactly one of two ways: one of them returned
\* ESP_OK, or the failure indication was printed after MAX_RETRIES failed
\* calls; whenever onDataSent runs.
C29_TransmitOutcome ==
    tdDone =>
        /\ tdSends <= MAX_RETRIES
        /\ tdOk \/ tdFailedMsg
        /\ ~(tdOk /\ tdFailedMsg)
        /\ tdFailedMsg => tdSends = MAX_RETRIES


\* C30: in the advanced transmitter, once setup() has run, the mode is
\* MODE_NORMAL only while the system is operational: after a failed
\* self-test no sequence of battery levels handled by managePower() brings
\* the mode back to MODE_NORMAL while transmission stays disabled.
C30_SafeModeSticky ==
    (advBooted /\ currentMode = "MODE_NORMAL") => operational

\* A loop() of the advanced transmitter has run to its end (no restart).
AdvLoopRan == advBooted /\ advBooted' /\ advLoops' # advLoops
\* The calls so far alternate, starting with enterLowPowerMode.
CallsAlternate ==
    \A i \in 1..Len(powerCalls) :
        powerCalls[i] = (IF i % 2 = 1 THEN "enter" ELSE "exit")

\* C31: in the advanced transmitter, managePower() enters MODE_POWER_SAVE
\* (calling enterLowPowerMode) only at a battery level below
\* LOW_BATTERY_THRESHOLD, leaves it, for MODE_NORMAL (calling
\* exitLowPowerMode), only at a level above RECOVERY_BATTERY_THRESHOLD,
\* leaves the mode unchanged at levels from the one threshold to the other,
\* and the calls of enterLowPowerMode and exitLowPowerMode of a run (since
\* power-on or restart) alternate, starting with enter.
C31_PowerSaveHysteresis ==
    [][AdvLoopRan =>
        /\ (currentMode # "MODE_POWER_SAVE" /\ currentMode' = "MODE_POWER_SAVE")
              => /\ batteryLevel' < advCfg.low
                 /\ powerCalls' = Append(powerCalls, "enter")
        /\ (currentMode = "MODE_POWER_SAVE" /\ currentMode' # "MODE_POWER_SAVE")
              => /\ batteryLevel' > advCfg.recovery
                 /\ currentMode' = "MODE_NORMAL"
                 /\ powerCalls' = Append(powerCalls, "exit")
        /\ (batteryLevel' >= advCfg.low /\ batteryLevel' <= advCfg.recovery)
              => currentMode' = currentMode
        /\ currentMode' = currentMode => powerCalls' = powerCalls
        /\ CallsAlternate'
    ]_vars
\* Power-save mode was entered, left and entered again in one run, and the
\* latest level lies between the thresholds.
C31_Witness ==
    /\ powerCalls = <<"enter", "exit", "enter">>
    /\ batteryLevel >= advCfg.low /\ batteryLevel <= advCfg.recovery
    /\ currentMode = "MODE_POWER_SAVE"

\* The readings the filter should look at: the latest FILTER_SIZE raw
\* readings, or all of them while there are fewer.
RecentReadings ==
    LET n == Len(rawReadings)
        k == IF n < filtCfg.filterSize THEN n ELSE filtCfg.filterSize
    IN  [i \in 1..k |-> rawReadings[n - k + i]]
\* v is the element of rank Len(rs) \div 2 (from 0) of rs in ascending order.
IsMedianOf(v, rs) ==
    /\ \E i \in 1..Len(rs) : rs[i] = v
    /\ Cardinality({i \in 1..Len(rs) : rs[i] < v}) <= Len(rs) \div 2
    /\ Cardinality({i \in 1..Len(rs) : rs[i] <= v}) > Len(rs) \div 2

\* C32: in the advanced transmitter, the distance transmitted in every
\* cycle, the first cycles after start included, is the median of the
\* latest FILTER_SIZE raw readings taken, and so is one of the readings
\* readDistance produced.
C32_MedianOfReadings ==
    filtCycles > 0 =>
        /\ \E i \in 1..Len(rawReadings) : rawReadings[i] = advDistance
        /\ IsMedianOf(advDistance, RecentReadings)

\* C33: with millis() a counter that wraps and elapsed times taken modulo
\* its width, the cooldown gate, once it has expired after a fall, is not
\* active again before the next fall is detected: an iteration that follows
\* one in which the gate had expired finds it expired too, and a low-g
\* sample it reads outside a window opens the window.
C33_NoCooldownAfterWrap ==
    [][(lastFallTimeStr # NA /\ CooldownOver(now, lastFallTime))
         => /\ CooldownOver(now', lastFallTime)
            /\ (~inLowWindow /\ FLess(sampleAcc', FALL_LOW_G)) => inLowWindow'
    ]_vars
====
